---- MODULE Spec2Model ----
(***************************************************************************)
(* Model of src/utils/lookout_equipment_utils.py.                          *)
(*                                                                         *)
(* LookoutEquipmentAnalysis: the object's fields, set_time_periods(),      *)
(* get_predictions(), _get_time_ranges() and compute_histograms()          *)
(* (Spec; SpecRanges with more predicted ranges and evaluation periods;    *)
(* SpecRuns with an earlier run kept for comparison; SpecLoad with         *)
(* get_labels() and describe_model requests that fail).                    *)
(* Timestamps are integers.  Signal values are integers and every float    *)
(* the code derives from them (bin edges, densities, distances) is kept as *)
(* an exact rational, with NaN as a separate value that compares false     *)
(* with everything, itself included (IEEE 754).  Rounding is not modelled: *)
(* np.arange yields exactly num_bins + 1 edges.                            *)
(*                                                                         *)
(* The helper functions list_datasets(), create_dataset(), delete_dataset()*)
(* and LookoutEquipmentScheduler.delete(), against an account of the       *)
(* service that pages its listings by NextToken (SpecService).             *)
(*                                                                         *)
(* LookoutEquipmentScheduler.create() and start() step by step, with the   *)
(* polling loop (SpecScheduler; SpecSchedulerRuns, in which a call that    *)
(* is in its loop goes on).                                                *)
(*                                                                         *)
(* create_data_schema(), the JSON text kept as its tokens (SpecSchema).    *)
(***************************************************************************)
EXTENDS Integers, Sequences, FiniteSets, TLC

\* ------------------------------------------------------------------ bounds
MaxT == 3          \* tags_df.index is 1..MaxT
MaxSignals == 2    \* number of columns of tags_df
MaxBins == 2       \* num_bins ranges over 1..MaxBins

Timeline == 1..MaxT
Foreign == MaxT + 1          \* a timestamp that tags_df.index does not hold

\* --------------------------------------------------------- numpy floats
NaN == [nan |-> TRUE, n |-> 0, d |-> 1]

RECURSIVE GCD(_, _)
GCD(a, b) == IF b = 0 THEN a ELSE GCD(b, a % b)

\* the float n/d (d > 0), in lowest terms
Frac(n, d) == LET g == GCD(n, d) IN [nan |-> FALSE, n |-> n \div g, d |-> d \div g]

Zero == Frac(0, 1)

\* a < b on floats: false as soon as one side is NaN
Lt(a, b) == ~a.nan /\ ~b.nan /\ a.n * b.d < b.n * a.d

\* a >= b on floats: false as soon as one side is NaN
Geq(a, b) == ~a.nan /\ ~b.nan /\ a.n * b.d >= b.n * a.d

Abs(x) == IF x < 0 THEN -x ELSE x

RECURSIVE SumSeq(_)
SumSeq(s) == IF s = <<>> THEN 0 ELSE Head(s) + SumSeq(Tail(s))

SetMax(S) == CHOOSE x \in S : \A y \in S : y <= x
SetMin(S) == CHOOSE x \in S : \A y \in S : x <= y

\* np.sort of a sequence of integers (ascending)
RECURSIVE InsertAsc(_, _)
InsertAsc(x, s) ==
    IF s = <<>> THEN <<x>>
    ELSE IF x <= Head(s) THEN <<x>> \o s
    ELSE <<Head(s)>> \o InsertAsc(x, Tail(s))

RECURSIVE NpSort(_)
NpSort(s) == IF s = <<>> THEN <<>> ELSE InsertAsc(Head(s), NpSort(Tail(s)))

\* ------------------------------------------------------- optional values
NoneIdx == [some |-> FALSE, idx |-> {}]
SomeIdx(i) == [some |-> TRUE, idx |-> i]


\* ------------------------------------------------------------- inputs
\* A column of tags_df: numeric readings over the whole timeline, or a column
\* of objects that are not numbers.  The numeric columns enumerated are 0 up
\* to some timestamp and 100 after it (constant 0 and constant 100 included).
StepUp(k) == [numeric |-> TRUE, v |-> [t \in Timeline |-> IF t <= k THEN 0 ELSE 100]]
NonNumeric == [numeric |-> FALSE, v |-> [t \in Timeline |-> 0]]

Columns == {StepUp(k) : k \in 0..MaxT} \cup {NonNumeric}

\* tags_df: up to MaxSignals columns, the column name being the position
TagsDfs == UNION {[1..n -> Columns] : n \in 0..MaxSignals}

Interval(s, e) == [start |-> s, end |-> e]

\* ModelMetrics['predicted_ranges'] of the describe_model responses enumerated
ModelResponses == {<<>>, <<Interval(1, 1)>>, <<Interval(2, MaxT)>>}

\* (evaluation_start, evaluation_end) pairs handed to set_time_periods
EvaluationPeriods == {<<1, MaxT>>, <<MaxT, 1>>}

\* (index_normal, index_anomaly) arguments handed to compute_histograms
IndexArguments ==
    { <<NoneIdx, NoneIdx>>,
      <<NoneIdx, SomeIdx({MaxT})>>,
      <<SomeIdx({1}), SomeIdx({MaxT})>>,
      <<SomeIdx({1}), SomeIdx({Foreign})>> }

NoPeriod == [some |-> FALSE, start |-> 0, end |-> 0]
NoRanges == [some |-> FALSE, rows |-> <<>>]
NoRank == [some |-> FALSE, items |-> <<>>]

VARIABLES
    df_list,              \* self.df_list: the columns of tags_df, in order
    predicted_ranges,     \* self.predicted_ranges (None until loaded)
    evaluation,           \* self.evaluation_start, self.evaluation_end
    ts_normal_training,   \* self.ts_normal_training (no attribute until set)
    ts_label_evaluation,  \* self.ts_label_evaluation (no attribute until set)
    num_bins,             \* self.num_bins (0: no attribute yet)
    rank,                 \* self.rank (no attribute until set)
    call,                 \* arguments of the last compute_histograms() call
    outcome               \* how that call ended: "none" (no call yet),
                          \* "returned", or the exception it raised

\* the labelled ranges of the same object, and its calls for the model
\* description
VARIABLES
    labelled_ranges,          \* self.labelled_ranges (None until loaded)
    describe_model_requests,  \* describe_model requests the object has sent
    returned                  \* the last get_predictions() or get_labels()
                              \* call: what it returned or raised

\* an earlier run of compute_histograms(), kept to compare a later one with:
\* what it read and what it left in self.rank
VARIABLES observed

\* the Lookout for Equipment account the helper functions and the scheduler
\* object talk to, and what the last call on it did
VARIABLES
    datasets,             \* the datasets of the account, in the order the
                          \* service lists them
    models,               \* the models of the account: name and dataset used
    scheduler_status,     \* the status the service holds for the scheduler
    sent,                 \* the requests the last call sent, in order
    last                  \* the last call: its arguments, what it read,
                          \* what it returned or raised

\* create_data_schema(): the dict it is called with and what the last call built
VARIABLES component_fields_map, schema

loadVars == <<labelled_ranges, describe_model_requests, returned>>

analysisVars == <<df_list, predicted_ranges, evaluation, ts_normal_training,
                  ts_label_evaluation, num_bins, rank, call, outcome, loadVars>>

serviceVars == <<datasets, models, scheduler_status, sent, last>>

schemaVars == <<component_fields_map, schema>>

vars == <<analysisVars, observed, serviceVars, schemaVars>>

NoCall == [made |-> FALSE, index_normal |-> NoneIdx, index_anomaly |-> NoneIdx]

NoRun == [some |-> FALSE, predicted_ranges |-> NoRanges, evaluation |-> NoPeriod,
          call |-> NoCall, num_bins |-> 0, outcome |-> "none", rank |-> NoRank]

NoReturn == [call |-> "none", raised |-> "none", value |-> NoRanges]

NoName == [some |-> FALSE, v |-> <<>>]
NoToken == [some |-> FALSE, v |-> 0]

NoLast ==
    [name |-> "none", dataset_name |-> NoName, max_results |-> 0,
     existed |-> FALSE, error |-> "none", status |-> "none",
     raised |-> "none", dataset_list |-> <<>>,
     at |-> "idle", described |-> FALSE]

NoSchema == [made |-> FALSE, Components |-> <<>>, json |-> <<>>]

\* the fields __init__ leaves unset
Constructed ==
    /\ predicted_ranges = NoRanges
    /\ evaluation = NoPeriod
    /\ ts_normal_training = NoneIdx
    /\ ts_label_evaluation = NoneIdx
    /\ num_bins = 0
    /\ rank = NoRank
    /\ call = NoCall
    /\ outcome = "none"
    /\ labelled_ranges = NoRanges
    /\ describe_model_requests = 0
    /\ returned = NoReturn

\* no call on the service has been made, on an account that holds nothing
ServiceUnused ==
    /\ datasets = <<>>
    /\ models = {}
    /\ scheduler_status = "ABSENT"
    /\ sent = <<>>
    /\ last = NoLast

SchemaUnused == component_fields_map = <<>> /\ schema = NoSchema

\* __init__
Init ==
    /\ df_list \in TagsDfs
    /\ Constructed
    /\ observed = NoRun
    /\ ServiceUnused
    /\ SchemaUnused


\* ------------------------------------------------------ set_time_periods
set_time_periods(evaluation_start, evaluation_end) ==
    /\ evaluation' = [some |-> TRUE, start |-> evaluation_start, end |-> evaluation_end]
    /\ UNCHANGED <<df_list, predicted_ranges, ts_normal_training,
                   ts_label_evaluation, num_bins, rank, call, outcome>>
    /\ UNCHANGED loadVars

\* ------------------------------------------------------- get_predictions
\* What a describe_model request brings: `raised` is the exception of the
\* request ("none": it is answered), `metrics` whether the response carries
\* ModelMetrics that eval() turns into a dict with both lists.
Trained(labeled, predicted) ==
    [raised |-> "none", metrics |-> TRUE,
     labeled_ranges |-> labeled, predicted_ranges |-> predicted]

\* the service holds no model of that name
Refused ==
    [raised |-> "ResourceNotFoundException", metrics |-> FALSE,
     labeled_ranges |-> <<>>, predicted_ranges |-> <<>>]

\* a model whose description carries no ModelMetrics
Untrained ==
    [raised |-> "none", metrics |-> FALSE,
     labeled_ranges |-> <<>>, predicted_ranges |-> <<>>]

\* ModelMetrics['labeled_ranges'] of the responses the specifications of
\* compute_histograms() enumerate
Labels == <<Interval(1, 1)>>

\* the exception _load_model_response ends with: of the request (line 585),
\* of ['ModelMetrics'] (line 587), or of ['start'] on a frame made of an
\* empty list, which has no columns (lines 591 and 596)
LoadRaises(response) ==
    IF response.raised # "none" THEN response.raised
    ELSE IF ~response.metrics THEN "KeyError"
    ELSE IF response.labeled_ranges = <<>> \/ response.predicted_ranges = <<>>
    THEN "KeyError"
    ELSE "none"

\* _load_model_response: both fields are assigned at lines 587-588, before
\* the conversions that can raise. (When line 591 raises, predicted_ranges
\* is left as the list of the response: the same rows.)
load_model_response(response) ==
    /\ describe_model_requests' = describe_model_requests + 1
    /\ IF response.raised = "none" /\ response.metrics
       THEN /\ labelled_ranges' = [some |-> TRUE, rows |-> response.labeled_ranges]
            /\ predicted_ranges' = [some |-> TRUE, rows |-> response.predicted_ranges]
       ELSE UNCHANGED <<labelled_ranges, predicted_ranges>>

AlwaysUnloaded(ranges) == TRUE

\* lines 637 and 652: `is None`
Unloaded(ranges) == ~ranges.some

\* `response` is what describe_model brings if the call sends the request
get_predictions(response) ==
    /\ IF Unloaded(predicted_ranges)
       THEN /\ load_model_response(response)
            /\ returned' = [call |-> "get_predictions",
                            raised |-> LoadRaises(response),
                            value |-> IF LoadRaises(response) = "none"
                                      THEN predicted_ranges' ELSE NoRanges]
       ELSE /\ UNCHANGED <<predicted_ranges, labelled_ranges,
                           describe_model_requests>>
            /\ returned' = [call |-> "get_predictions", raised |-> "none",
                            value |-> predicted_ranges]
    /\ UNCHANGED <<df_list, evaluation, ts_normal_training,
                   ts_label_evaluation, num_bins, rank, call, outcome>>

\* ------------------------------------------------------------ get_labels
get_labels(response) ==
    /\ IF Unloaded(labelled_ranges)
       THEN /\ load_model_response(response)
            /\ returned' = [call |-> "get_labels",
                            raised |-> LoadRaises(response),
                            value |-> IF LoadRaises(response) = "none"
                                      THEN labelled_ranges' ELSE NoRanges]
       ELSE /\ UNCHANGED <<predicted_ranges, labelled_ranges,
                           describe_model_requests>>
            /\ returned' = [call |-> "get_labels", raised |-> "none",
                            value |-> labelled_ranges]
    /\ UNCHANGED <<df_list, evaluation, ts_normal_training,
                   ts_label_evaluation, num_bins, rank, call, outcome>>

\* ------------------------------------------------------ _get_time_ranges
RECURSIVE MarkRangesToggle(_, _)
MarkRangesToggle(rows, prediction) ==
    IF rows = <<>> THEN prediction
    ELSE MarkRangesToggle(Tail(rows),
                          [t \in DOMAIN prediction |->
                              IF Head(rows).start <= t /\ t <= Head(rows).end
                              THEN 1 - prediction[t] ELSE prediction[t]])

RECURSIVE MarkRangesHalfOpen(_, _)
MarkRangesHalfOpen(rows, prediction) ==
    IF rows = <<>> THEN prediction
    ELSE MarkRangesHalfOpen(Tail(rows),
                            [t \in DOMAIN prediction |->
                                IF Head(rows).start <= t /\ t < Head(rows).end
                                THEN 1 ELSE prediction[t]])

RECURSIVE MarkRangesEitherWay(_, _)
MarkRangesEitherWay(rows, prediction) ==
    IF rows = <<>> THEN prediction
    ELSE MarkRangesEitherWay(Tail(rows),
                             [t \in DOMAIN prediction |->
                                 IF \/ Head(rows).start <= t /\ t <= Head(rows).end
                                    \/ Head(rows).end <= t /\ t <= Head(rows).start
                                 THEN 1 ELSE prediction[t]])

\* predictions_df.loc[row['start']:row['end'], 'Prediction'] = 1, row by row:
\* a label slice of the sorted index holds the timestamps from start to end,
\* both included, whether or not start and end are timestamps of the index
RECURSIVE MarkRanges(_, _)
MarkRanges(rows, prediction) ==
    IF rows = <<>> THEN prediction
    ELSE MarkRanges(Tail(rows),
                    [t \in DOMAIN prediction |->
                        IF Head(rows).start <= t /\ t <= Head(rows).end
                        THEN 1 ELSE prediction[t]])

\* lines 683-690: the evaluation period cut out of predictions_df, split by flag
SplitPredictions(predictions_df, evaluation_start, evaluation_end) ==
    [index_normal  |-> {t \in DOMAIN predictions_df :
                          evaluation_start <= t /\ t <= evaluation_end
                          /\ predictions_df[t] = 0},
     index_anomaly |-> {t \in DOMAIN predictions_df :
                          evaluation_start <= t /\ t <= evaluation_end
                          /\ predictions_df[t] = 1}]

GetTimeRanges(rows, evaluation_start, evaluation_end) ==
    SplitPredictions(MarkRanges(rows, [t \in Timeline |-> 0]),
                     evaluation_start, evaluation_end)

\* ---------------------------------------------------- compute_histograms
\* current_tag_df.loc[index, tag]: the readings at the timestamps of index
Loc(current_tag_df, index) == [t \in index |-> current_tag_df.v[t]]

\* .loc raises KeyError for a timestamp the column does not hold
LocRaises(current_tag_df, index) == ~(index \subseteq DOMAIN current_tag_df.v)

NpMax(current_signal_values) == SetMax({current_signal_values[t] : t \in DOMAIN current_signal_values})
NpMin(current_signal_values) == SetMin({current_signal_values[t] : t \in DOMAIN current_signal_values})

\* (np.max(values) - np.min(values)) / num_bins
BinWidth(current_signal_values, bins_count) ==
    Frac(NpMax(current_signal_values) - NpMin(current_signal_values), bins_count)

\* np.arange(start, stop, step) raises when step is zero
ArangeRaises(bin_width) == bin_width.n = 0

\* value x falls in bin k (1..bins_count) of the edges lo, lo + bin_width, ...,
\* lo + bins_count * bin_width; every bin is half open but the last
InBin(x, k, lo, bin_width, bins_count) ==
    /\ (x - lo) * bin_width.d >= (k - 1) * bin_width.n
    /\ \/ (x - lo) * bin_width.d < k * bin_width.n
       \/ k = bins_count /\ (x - lo) * bin_width.d = k * bin_width.n

\* np.histogram(a, bins=bins, density=True)[0]: the bin heights
\* count / (total * bin_width), as numerators h over the common denominator
\* den; with no value at all every bin is 0/0, which is NaN
Density(count, total, bin_width) ==
    [nan |-> (total = 0),
     h   |-> [k \in DOMAIN count |-> count[k] * bin_width.d],
     den |-> total * bin_width.n]

Normalised(count, bin_width) == Density(count, SumSeq(count), bin_width)

NpHistogram(a, lo, bin_width, bins_count) ==
    Normalised([k \in 1..bins_count |->
                   Cardinality({t \in DOMAIN a : InBin(a[t], k, lo, bin_width, bins_count)})],
               bin_width)

\* mean absolute difference of two sorted samples of equal size, the values
\* being u_sorted[i] / u_den and v_sorted[i] / v_den
MeanAbsoluteDifference(u_sorted, u_den, v_sorted, v_den) ==
    Frac(SumSeq([i \in DOMAIN u_sorted |-> Abs(u_sorted[i] * v_den - v_sorted[i] * u_den)]),
         Len(u_sorted) * u_den * v_den)

\* scipy.stats.wasserstein_distance(u_values, v_values): both arguments are
\* samples with uniform weights; for samples of equal size it is the mean
\* absolute difference of the sorted samples.  NaN in, NaN out.
wasserstein_distance(u, v) ==
    IF u.nan \/ v.nan THEN NaN
    ELSE MeanAbsoluteDifference(NpSort(u.h), u.den, NpSort(v.h), v.den)

\* the exception the try block of one loop iteration raises (lines 728-748),
\* "none" when it runs to the end.  Line 729 reads self.ts_label_evaluation
\* and line 730 self.ts_normal_training: AttributeError while the object has
\* no such attribute.  Subtracting two non-numbers on line 736 is a TypeError;
\* np.arange with a zero step on line 737 is a ValueError (ZeroDivisionError
\* on some numpy versions).
TryException(current_tag_df, label_evaluation, normal_training, bins_count) ==
    IF ~label_evaluation.some THEN "AttributeError"
    ELSE IF LocRaises(current_tag_df, label_evaluation.idx) THEN "KeyError"
    ELSE IF ~normal_training.some THEN "AttributeError"
    ELSE IF LocRaises(current_tag_df, normal_training.idx) THEN "KeyError"
    ELSE IF ~current_tag_df.numeric THEN "TypeError"
    ELSE IF ArangeRaises(BinWidth(current_tag_df.v, bins_count)) THEN "ValueError"
    ELSE "none"

\* lines 740-747: the two histograms over the same bins and their distance
\* (sig_training: current_signal_training, sig_evaluation:
\* current_signal_evaluation)
HistogramDistance(sig_training, sig_evaluation, lo, bin_width, bins_count) ==
    wasserstein_distance(NpHistogram(sig_training, lo, bin_width, bins_count),
                         NpHistogram(sig_evaluation, lo, bin_width, bins_count))

\* the distance d the try block computes when nothing raises
TryDistance(current_tag_df, label_evaluation, normal_training, bins_count) ==
    HistogramDistance(Loc(current_tag_df, normal_training.idx),
                      Loc(current_tag_df, label_evaluation.idx),
                      NpMin(current_tag_df.v),
                      BinWidth(current_tag_df.v, bins_count),
                      bins_count)

RankUpdate(r, tag, d) == Append(r, [tag |-> tag, score |-> d])

CatchesLookupErrorsOnly(exception) ==
    exception \in {"AttributeError", "KeyError", "TypeError"}

\* except Exception as e: every exception of the try block derives from it
Catches(exception) == TRUE

ExceptDrop(r, tag) == r

\* the handler's body: rank.update({tag: 0.0})
Except(r, tag) == RankUpdate(r, tag, Zero)

\* one iteration of the loop, e being the exception its try block raises:
\* the rank dict after it, or the same dict when the exception is not caught
Iteration(r, tag, current_tag_df, e, label_evaluation, normal_training, bins_count) ==
    IF e = "none"
    THEN RankUpdate(r, tag, TryDistance(current_tag_df, label_evaluation,
                                        normal_training, bins_count))
    ELSE IF Catches(e) THEN Except(r, tag)
    ELSE r

\* for tag, current_tag_df in self.df_list.items(): try ... except ...
\* The result is the rank dict in insertion order and the exception that left
\* the loop ("none" when the loop ran to its end).
RECURSIVE RankLoop(_, _, _, _, _, _)
RECURSIVE RankLoopFrom(_, _, _, _, _, _, _)
RankLoopFrom(signals, tag, r, e, label_evaluation, normal_training, bins_count) ==
    IF e # "none" /\ ~Catches(e) THEN [items |-> r, exception |-> e]
    ELSE RankLoop(signals, tag + 1,
                  Iteration(r, tag, signals[tag], e, label_evaluation,
                            normal_training, bins_count),
                  label_evaluation, normal_training, bins_count)

RankLoop(signals, tag, r, label_evaluation, normal_training, bins_count) ==
    IF tag > Len(signals) THEN [items |-> r, exception |-> "none"]
    ELSE RankLoopFrom(signals, tag, r,
                      TryException(signals[tag], label_evaluation, normal_training,
                                   bins_count),
                      label_evaluation, normal_training, bins_count)

\* place item in a list sorted by decreasing score, before the entries that
\* compare less or equal: entries of equal score come out in reverse order
RECURSIVE InsertBeforeEqual(_, _)
InsertBeforeEqual(item, sorted) ==
    IF sorted = <<>> THEN <<item>>
    ELSE IF ~Lt(item.score, Head(sorted).score) THEN <<item>> \o sorted
    ELSE <<Head(sorted)>> \o InsertBeforeEqual(item, Tail(sorted))

\* place item in a list sorted by decreasing score, after every entry that
\* does not compare less than it
RECURSIVE InsertAfterEqual(_, _)
InsertAfterEqual(item, sorted) ==
    IF sorted = <<>> THEN <<item>>
    ELSE IF Lt(Head(sorted).score, item.score) THEN <<item>> \o sorted
    ELSE <<Head(sorted)>> \o InsertAfterEqual(item, Tail(sorted))

RECURSIVE SortedWith(_, _)
SortedWith(items, reverseTies) ==
    IF items = <<>> THEN <<>>
    ELSE LET n == Len(items)
             before == SortedWith(SubSeq(items, 1, n - 1), reverseTies)
         IN  IF reverseTies THEN InsertBeforeEqual(items[n], before)
             ELSE InsertAfterEqual(items[n], before)

SortedReverseUnstable(items) == SortedWith(items, TRUE)

\* sorted(rank.items(), key=lambda rank: rank[1], reverse=True): a stable
\* sort whose only comparison is < on the scores
SortedReverse(items) == SortedWith(items, FALSE)

\* the exception _get_time_ranges raises to the caller of compute_histograms,
\* "none" when it returns: no column in tags_df (line 671), predicted_ranges
\* still None (line 680), set_time_periods never called (line 684)
GetTimeRangesException ==
    IF Len(df_list) = 0 THEN "IndexError"
    ELSE IF ~predicted_ranges.some THEN "AttributeError"
    ELSE IF ~evaluation.some THEN "AttributeError"
    ELSE "none"

\* lines 753-755 when the loop ran to its end; otherwise the exception leaves
\* compute_histograms and self.rank is not assigned
AssignRank(loop) ==
    IF loop.exception = "none"
    THEN /\ rank' = [some |-> TRUE, items |-> SortedReverse(loop.items)]
         /\ outcome' = "returned"
    ELSE /\ rank' = rank
         /\ outcome' = loop.exception

\* line 715
AssignTimeRanges(ranges) ==
    /\ ts_normal_training' = SomeIdx(ranges.index_normal)
    /\ ts_label_evaluation' = SomeIdx(ranges.index_anomaly)

compute_histograms(index_normal, index_anomaly, bins_count) ==
    /\ call' = [made |-> TRUE, index_normal |-> index_normal,
                index_anomaly |-> index_anomaly]
    /\ IF (~index_normal.some \/ ~index_anomaly.some) /\ GetTimeRangesException # "none"
       THEN /\ outcome' = GetTimeRangesException
            /\ UNCHANGED <<ts_normal_training, ts_label_evaluation, num_bins, rank>>
       ELSE /\ IF ~index_normal.some \/ ~index_anomaly.some
               THEN AssignTimeRanges(GetTimeRanges(predicted_ranges.rows,
                                                   evaluation.start, evaluation.end))
               ELSE UNCHANGED <<ts_normal_training, ts_label_evaluation>>
            /\ num_bins' = bins_count
            /\ AssignRank(RankLoop(df_list, 1, <<>>, ts_label_evaluation',
                                   ts_normal_training', bins_count))
    /\ UNCHANGED <<df_list, predicted_ranges, evaluation>>
    /\ UNCHANGED loadVars

\* every action sets the variables of its own object; the specifications
\* leave the others as they are
Next ==
    \/ \E period \in EvaluationPeriods :
          /\ set_time_periods(period[1], period[2])
          /\ UNCHANGED <<observed, serviceVars, schemaVars>>
    \/ \E rows \in ModelResponses :
          /\ get_predictions(Trained(Labels, rows))
          /\ UNCHANGED <<observed, serviceVars, schemaVars>>
    \/ \E arguments \in IndexArguments, bins_count \in 1..MaxBins :
          /\ compute_histograms(arguments[1], arguments[2], bins_count)
          /\ UNCHANGED <<observed, serviceVars, schemaVars>>

Spec == Init /\ [][Next]_vars

\* ------------------------------------------- _get_time_ranges, more inputs
MaxRanges == 2     \* rows of predicted_ranges in the second specification

\* predicted ranges that overlap, repeat, reach before the first or after the
\* last timestamp of the timeline, or have start > end
RangeIntervals ==
    { Interval(0, 1), Interval(1, 2), Interval(2, 2), Interval(2, MaxT),
      Interval(MaxT, Foreign), Interval(MaxT, 1), Interval(0, Foreign) }

RangeLists == UNION {[1..n -> RangeIntervals] : n \in 0..MaxRanges}

RangePeriods == {<<1, MaxT>>, <<2, MaxT>>, <<1, 2>>, <<MaxT, 1>>}

RangeFrames == {<<StepUp(1)>>, <<StepUp(2), StepUp(1)>>}

\* calls that leave at least one index out, so that _get_time_ranges runs
RangeArguments == {<<NoneIdx, NoneIdx>>, <<NoneIdx, SomeIdx({MaxT})>>}

InitRanges == Init /\ df_list \in RangeFrames

\* get_predictions() asks for a describe_model response only while
\* predicted_ranges is None: a later call draws none
NextRanges ==
    \/ \E period \in RangePeriods :
          /\ set_time_periods(period[1], period[2])
          /\ UNCHANGED <<observed, serviceVars, schemaVars>>
    \/ \E rows \in (IF predicted_ranges.some THEN {<<>>} ELSE RangeLists) :
          /\ get_predictions(Trained(Labels, rows))
          /\ UNCHANGED <<observed, serviceVars, schemaVars>>
    \/ \E arguments \in RangeArguments, bins_count \in 1..MaxBins :
          /\ compute_histograms(arguments[1], arguments[2], bins_count)
          /\ UNCHANGED <<observed, serviceVars, schemaVars>>

SpecRanges == InitRanges /\ [][NextRanges]_vars

\* ------------------------------- get_predictions and get_labels, any response
MaxLoads == 3      \* describe_model requests one object sends at most

\* ModelMetrics['labeled_ranges'] of the responses: none, one or two ranges
LabelResponses ==
    {<<>>, Labels, <<Interval(2, 2)>>, <<Interval(1, 1), Interval(2, MaxT)>>}

LoadResponses ==
    {Refused, Untrained}
        \cup {Trained(labeled, predicted) :
                 labeled \in LabelResponses, predicted \in ModelResponses}

InitLoad == Init /\ df_list = <<>>

NextLoad ==
    \/ \E response \in LoadResponses :
          /\ Unloaded(predicted_ranges) => describe_model_requests < MaxLoads
          /\ get_predictions(response)
          /\ UNCHANGED <<observed, serviceVars, schemaVars>>
    \/ \E response \in LoadResponses :
          /\ Unloaded(labelled_ranges) => describe_model_requests < MaxLoads
          /\ get_labels(response)
          /\ UNCHANGED <<observed, serviceVars, schemaVars>>

SpecLoad == InitLoad /\ [][NextLoad]_vars

\* ------------------------------------------ compute_histograms, run again
RunFrames == {<<StepUp(1)>>, <<StepUp(2), StepUp(1)>>}

InitRuns == Init /\ df_list \in RunFrames

\* the run this step makes is kept: what the object held when it started,
\* the arguments, and what the call left
KeepRun ==
    observed' = [some |-> TRUE, predicted_ranges |-> predicted_ranges,
                 evaluation |-> evaluation, call |-> call', num_bins |-> num_bins',
                 outcome |-> outcome', rank |-> rank']

NextRuns ==
    \/ \E period \in EvaluationPeriods :
          /\ set_time_periods(period[1], period[2])
          /\ UNCHANGED <<observed, serviceVars, schemaVars>>
    \/ \E rows \in (IF predicted_ranges.some THEN {<<>>} ELSE ModelResponses) :
          /\ get_predictions(Trained(Labels, rows))
          /\ UNCHANGED <<observed, serviceVars, schemaVars>>
    \/ \E arguments \in IndexArguments, bins_count \in 1..MaxBins :
          /\ compute_histograms(arguments[1], arguments[2], bins_count)
          /\ UNCHANGED <<observed, serviceVars, schemaVars>>
    \/ \E arguments \in IndexArguments, bins_count \in 1..MaxBins :
          /\ compute_histograms(arguments[1], arguments[2], bins_count)
          /\ KeepRun
          /\ UNCHANGED <<serviceVars, schemaVars>>

SpecRuns == InitRuns /\ [][NextRuns]_vars

\* ------------------------------------------------- the service account
MaxPage == 2       \* summaries the service puts into one response at most

\* A dataset name is a sequence of characters, numbers here: <<1, k>> begins
\* with <<1>>.  There is one more name beginning with <<1>> than a page holds.
DatasetNames == {<<1>>, <<2>>} \cup {<<1, k>> : k \in 1..MaxPage}

SomeName(name) == [some |-> TRUE, v |-> name]
SomeToken(token) == [some |-> TRUE, v |-> token]

\* DatasetNameBeginsWith
BeginsWith(name, prefix) ==
    Len(prefix) <= Len(name) /\ SubSeq(name, 1, Len(prefix)) = prefix

Range(s) == {s[i] : i \in DOMAIN s}

Smaller(a, b) == IF a <= b THEN a ELSE b

\* the orders in which the service may list datasets of these names
Listings(names) ==
    UNION {{s \in [1..n -> names] : \A i, j \in 1..n : i # j => s[i] # s[j]} :
              n \in 0..Cardinality(names)}

Model(name, dataset) == [ModelName |-> name, DatasetName |-> dataset]

ModelSets == {{}, {Model(1, <<1>>)}, {Model(1, <<1>>), Model(2, <<1, 1>>)}}

SchedulerStatuses == {"ABSENT", "PENDING", "RUNNING", "STOPPING", "STOPPED"}

\* a request as the client sends it; MaxResults 0: the request carries none
Request(api, name, kargs) ==
    [api |-> api, DatasetName |-> name, MaxResults |-> kargs.MaxResults,
     DatasetNameBeginsWith |-> kargs.DatasetNameBeginsWith,
     NextToken |-> kargs.NextToken]

NoKargs == [MaxResults |-> 0, DatasetNameBeginsWith |-> NoName, NextToken |-> NoToken]

\* the datasets a list_datasets request asks for, in the service's order
Matching(prefix) ==
    SelectSeq(datasets, LAMBDA name : ~prefix.some \/ BeginsWith(name, prefix.v))

\* the service answers with at most MaxResults summaries, and at most MaxPage
PageSize(max_results) ==
    IF max_results = 0 THEN MaxPage ELSE Smaller(max_results, MaxPage)

\* one page: the summaries from the place the token names (the start without
\* a token), and a NextToken when more are left
PageFrom(matching, from, size) ==
    [DatasetSummaries |-> SubSeq(matching, from + 1, Smaller(from + size, Len(matching))),
     NextToken |-> IF from + size < Len(matching)
                   THEN SomeToken(from + size) ELSE NoToken]

\* the service's response to lookoutequipment_client.list_datasets(**kargs)
ListDatasetsResponse(kargs) ==
    PageFrom(Matching(kargs.DatasetNameBeginsWith),
             IF kargs.NextToken.some THEN kargs.NextToken.v ELSE 0,
             PageSize(kargs.MaxResults))

\* ---------------------------------------------------------- list_datasets
RECURSIVE ListDatasetsLoopDropsLastPage(_, _, _)
ListDatasetsLoopDropsLastPage(kargs, dataset_list, requests) ==
    LET response == ListDatasetsResponse(kargs)
    IN  IF response.NextToken.some
        THEN ListDatasetsLoopDropsLastPage(
                 [kargs EXCEPT !.NextToken = response.NextToken],
                 dataset_list \o response.DatasetSummaries,
                 Append(requests, Request("list_datasets", NoName, kargs)))
        ELSE [dataset_list |-> dataset_list,
              sent |-> Append(requests, Request("list_datasets", NoName, kargs))]

\* while has_more_records: one request with the current kargs, the NextToken
\* of the response put into kargs (or the loop ended), the names appended
RECURSIVE ListDatasetsLoop(_, _, _)
ListDatasetsLoop(kargs, dataset_list, requests) ==
    LET response == ListDatasetsResponse(kargs)
    IN  IF response.NextToken.some
        THEN ListDatasetsLoop([kargs EXCEPT !.NextToken = response.NextToken],
                              dataset_list \o response.DatasetSummaries,
                              Append(requests, Request("list_datasets", NoName, kargs)))
        ELSE [dataset_list |-> dataset_list \o response.DatasetSummaries,
              sent |-> Append(requests, Request("list_datasets", NoName, kargs))]

ListDatasetsReturns(dataset_name_prefix, max_results, done) ==
    /\ sent' = done.sent
    /\ last' = [NoLast EXCEPT !.name = "list_datasets",
                              !.dataset_name = dataset_name_prefix,
                              !.max_results = max_results,
                              !.dataset_list = done.dataset_list]

list_datasets(dataset_name_prefix, max_results) ==
    /\ ListDatasetsReturns(dataset_name_prefix, max_results,
                           ListDatasetsLoop([MaxResults |-> max_results,
                                             DatasetNameBeginsWith |-> dataset_name_prefix,
                                             NextToken |-> NoToken],
                                            <<>>, <<>>))
    /\ UNCHANGED <<datasets, models, scheduler_status>>

\* --------------------------------------------------------- create_dataset
\* lines 179-181: one list_datasets request, without MaxResults or NextToken
ExistsKargs(dataset_name) ==
    [MaxResults |-> 0, DatasetNameBeginsWith |-> SomeName(dataset_name),
     NextToken |-> NoToken]

\* lines 183-187: the name is looked for in the summaries of that response
DatasetExists(dataset_name, list_datasets_response) ==
    dataset_name \in Range(list_datasets_response.DatasetSummaries)

\* the service creates the dataset, unless the account holds the name: then
\* it answers ConflictException, which lines 210-211 print
CreateError(dataset_name) ==
    IF dataset_name \in Range(datasets) THEN "ConflictException" ELSE "none"

\* where the service lists a new dataset among the others is its choice
Created(dataset_name) ==
    \E k \in 0..Len(datasets) :
        datasets' = SubSeq(datasets, 1, k) \o <<dataset_name>>
                        \o SubSeq(datasets, k + 1, Len(datasets))

create_dataset(dataset_name) ==
    /\ IF DatasetExists(dataset_name, ListDatasetsResponse(ExistsKargs(dataset_name)))
       THEN /\ sent' = <<Request("list_datasets", NoName, ExistsKargs(dataset_name))>>
            /\ last' = [NoLast EXCEPT !.name = "create_dataset",
                                      !.dataset_name = SomeName(dataset_name),
                                      !.existed = TRUE]
            /\ UNCHANGED datasets
       ELSE /\ sent' = <<Request("list_datasets", NoName, ExistsKargs(dataset_name)),
                         Request("create_dataset", SomeName(dataset_name), NoKargs)>>
            /\ last' = [NoLast EXCEPT !.name = "create_dataset",
                                      !.dataset_name = SomeName(dataset_name),
                                      !.existed = (dataset_name \in Range(datasets)),
                                      !.error = CreateError(dataset_name)]
            /\ IF CreateError(dataset_name) = "none"
               THEN Created(dataset_name)
               ELSE UNCHANGED datasets
    /\ UNCHANGED <<models, scheduler_status>>

\* --------------------------------------------------------- delete_dataset
\* the models that use the dataset
ModelsOf(dataset_name) == {m \in models : m.DatasetName = dataset_name}

\* what the service answers to delete_dataset(DatasetName=...)
DeleteError(dataset_name) ==
    IF dataset_name \notin Range(datasets) THEN "ResourceNotFoundException"
    ELSE IF ModelsOf(dataset_name) # {} THEN "ConflictException"
    ELSE "none"

\* the parameters of list_models_for_datasets (lines 97-102)
ListModelsParameters ==
    {"model_name_prefix", "dataset_name_prefix", "max_results", "region_name"}

\* the keyword arguments line 250 calls it with
ListModelsKeywords == {"DATASET_NAME_FOR_LIST_MODELS"}

\* a call with a keyword the function does not have raises TypeError before
\* the function body runs
CallRaises(parameters, keywords) ==
    IF keywords \subseteq parameters THEN "none" ELSE "TypeError"

Without(listing, dataset_name) == SelectSeq(listing, LAMBDA name : name # dataset_name)

\* The handler of ConflictException (lines 249-257) starts with the call of
\* line 250, which raises: the exception leaves delete_dataset() from inside
\* the except block, and lines 252-257 do not run.
delete_dataset(dataset_name) ==
    /\ sent' = <<Request("delete_dataset", SomeName(dataset_name), NoKargs)>>
    /\ last' = [NoLast EXCEPT !.name = "delete_dataset",
                              !.dataset_name = SomeName(dataset_name),
                              !.existed = (dataset_name \in Range(datasets)),
                              !.error = DeleteError(dataset_name),
                              !.raised = IF DeleteError(dataset_name) = "ConflictException"
                                         THEN CallRaises(ListModelsParameters,
                                                         ListModelsKeywords)
                                         ELSE "none"]
    /\ datasets' = IF DeleteError(dataset_name) = "none"
                   THEN Without(datasets, dataset_name) ELSE datasets
    /\ UNCHANGED <<models, scheduler_status>>

\* ------------------------------------------- LookoutEquipmentScheduler
SchedulerRequest(api) == Request(api, NoName, NoKargs)

DeletableUnlessRunning(status) == status # "RUNNING"

\* line 1082: self.get_status() == 'STOPPED'
Deletable(status) == status = "STOPPED"

\* delete(): get_status() sends describe_inference_scheduler, which raises
\* ResourceNotFoundException when the service holds no such scheduler
delete ==
    /\ IF scheduler_status = "ABSENT"
       THEN /\ sent' = <<SchedulerRequest("describe_inference_scheduler")>>
            /\ last' = [NoLast EXCEPT !.name = "delete",
                                      !.raised = "ResourceNotFoundException"]
            /\ UNCHANGED scheduler_status
       ELSE IF Deletable(scheduler_status)
       THEN /\ sent' = <<SchedulerRequest("describe_inference_scheduler"),
                         SchedulerRequest("delete_inference_scheduler")>>
            /\ last' = [NoLast EXCEPT !.name = "delete", !.status = scheduler_status]
            /\ scheduler_status' = "ABSENT"
       ELSE /\ sent' = <<SchedulerRequest("describe_inference_scheduler")>>
            /\ last' = [NoLast EXCEPT !.name = "delete", !.status = scheduler_status,
                                      !.raised = "Exception"]
            /\ UNCHANGED scheduler_status
    /\ UNCHANGED <<datasets, models>>

\* the service, or another client, moves the scheduler to another status
scheduler_moves(status) ==
    /\ scheduler_status # status
    /\ scheduler_status' = status
    /\ UNCHANGED <<datasets, models, sent, last>>

\* create(), start(): one step for the request, one step for each iteration
\* of the polling loop, one step for leaving the loop; last.at is the position
\* of the call ("polling": the request has answered and the loop has not been
\* left), last.status the local scheduler_status, last.described whether
\* describe_scheduler_response is bound
MaxPolls == 2   \* describe requests of one polling loop that sent keeps

\* a new call is made only when the previous one has returned or raised
Idle == last.at = "idle"

\* the Status of a create, start or describe response
ResponseStatuses == SchedulerStatuses \ {"ABSENT"}

Logged(request) == IF Len(sent) <= MaxPolls THEN Append(sent, request) ELSE sent

StillPendingUntilRunning(status) == status # "RUNNING"

\* lines 1034 and 1054: while scheduler_status == 'PENDING'
StillPending(status) == status = "PENDING"

\* lines 1035-1039 and 1055-1059: time.sleep(5), describe_inference_scheduler
\* and scheduler_status = describe_scheduler_response['Status']
Poll(method) ==
    /\ last.name = method
    /\ last.at = "polling"
    /\ StillPending(last.status)
    /\ sent' = Logged(SchedulerRequest("describe_inference_scheduler"))
    /\ last' = IF scheduler_status = "ABSENT"
               THEN [last EXCEPT !.at = "idle",
                                 !.raised = "ResourceNotFoundException"]
               ELSE [last EXCEPT !.status = scheduler_status, !.described = TRUE]
    /\ UNCHANGED <<datasets, models, scheduler_status>>

\* the service creates a scheduler only under a name it does not hold
CreateSchedulerError(status) ==
    IF status = "ABSENT" THEN "none" ELSE "ConflictException"

\* the service starts only a stopped scheduler
StartSchedulerError(status) ==
    IF status = "ABSENT" THEN "ResourceNotFoundException"
    ELSE IF status = "STOPPED" THEN "none" ELSE "ConflictException"

\* lines 1029-1033 and 1046-1053: the request and the Status of its response;
\* the service puts the scheduler into the status it answers
Requested(method, api, error) ==
    /\ Idle
    /\ sent' = <<SchedulerRequest(api)>>
    /\ IF error # "none"
       THEN /\ last' = [NoLast EXCEPT !.name = method, !.error = error,
                                      !.raised = error]
            /\ UNCHANGED scheduler_status
       ELSE \E status \in ResponseStatuses :
               /\ scheduler_status' = status
               /\ last' = [NoLast EXCEPT !.name = method, !.status = status,
                                         !.at = "polling"]
    /\ UNCHANGED <<datasets, models>>

\* lines 1040-1043 and 1060-1061: the loop is left
Left(method, raised) ==
    /\ last.name = method
    /\ last.at = "polling"
    /\ ~StillPending(last.status)
    /\ last' = [last EXCEPT !.at = "idle", !.raised = raised]
    /\ UNCHANGED <<datasets, models, scheduler_status, sent>>

create ==
    Requested("create", "create_inference_scheduler",
              CreateSchedulerError(scheduler_status))

create_poll == Poll("create")

\* line 1043: return describe_scheduler_response, a name only an iteration of
\* the loop binds
create_return ==
    Left("create", IF last.described THEN "none" ELSE "UnboundLocalError")

start ==
    Requested("start", "start_inference_scheduler",
              StartSchedulerError(scheduler_status))

start_poll == Poll("start")

start_return == Left("start", "none")

\* an account holding any datasets, models on some of them, and the scheduler
\* in any status; the analysis object is not used
InitService ==
    /\ df_list = <<>>
    /\ Constructed
    /\ observed = NoRun
    /\ SchemaUnused
    /\ datasets \in Listings(DatasetNames)
    /\ models \in {ms \in ModelSets : \A m \in ms : m.DatasetName \in Range(datasets)}
    /\ scheduler_status \in SchedulerStatuses
    /\ sent = <<>>
    /\ last = NoLast

NextService ==
    \/ \E prefix \in {NoName, SomeName(<<1>>)}, max_results \in 1..MaxPage :
          /\ list_datasets(prefix, max_results)
          /\ UNCHANGED <<analysisVars, observed, schemaVars>>
    \/ \E name \in DatasetNames :
          /\ create_dataset(name)
          /\ UNCHANGED <<analysisVars, observed, schemaVars>>
    \/ \E name \in DatasetNames :
          /\ delete_dataset(name)
          /\ UNCHANGED <<analysisVars, observed, schemaVars>>
    \/ /\ delete
       /\ UNCHANGED <<analysisVars, observed, schemaVars>>
    \/ \E status \in SchedulerStatuses :
          /\ scheduler_moves(status)
          /\ UNCHANGED <<analysisVars, observed, schemaVars>>

SpecService == InitService /\ [][NextService]_vars

\* one scheduler object, and a service that moves its scheduler between the
\* statuses a response can carry; nothing but delete() of this object takes
\* the scheduler away
InitScheduler ==
    /\ df_list = <<>>
    /\ Constructed
    /\ observed = NoRun
    /\ SchemaUnused
    /\ datasets = <<>>
    /\ models = {}
    /\ scheduler_status \in SchedulerStatuses
    /\ sent = <<>>
    /\ last = NoLast

CreateLoop ==
    /\ create_poll \/ create_return
    /\ UNCHANGED <<analysisVars, observed, schemaVars>>

StartLoop ==
    /\ start_poll \/ start_return
    /\ UNCHANGED <<analysisVars, observed, schemaVars>>

NextScheduler ==
    \/ /\ create
       /\ UNCHANGED <<analysisVars, observed, schemaVars>>
    \/ CreateLoop
    \/ /\ start
       /\ UNCHANGED <<analysisVars, observed, schemaVars>>
    \/ StartLoop
    \/ /\ Idle
       /\ delete
       /\ UNCHANGED <<analysisVars, observed, schemaVars>>
    \/ \E status \in ResponseStatuses :
          /\ scheduler_status # "ABSENT"
          /\ scheduler_moves(status)
          /\ UNCHANGED <<analysisVars, observed, schemaVars>>

SpecScheduler == InitScheduler /\ [][NextScheduler]_vars

\* a call that is in its polling loop goes on: after time.sleep(5) the next
\* statement runs. Nothing is assumed of the service.
SpecSchedulerRuns ==
    /\ InitScheduler
    /\ [][NextScheduler]_vars
    /\ WF_vars(CreateLoop)
    /\ WF_vars(StartLoop)

\* ----------------------------------------------------- create_data_schema
MaxComponents == 2   \* keys of component_fields_map
MaxFields == 2       \* field names of one component

ComponentNames == {"pump", "motor", "valve"}

FieldNames == {"Timestamp", "Sensor"}

\* the lists of field names a component may be mapped to (a name may repeat)
FieldLists == UNION {[1..n -> FieldNames] : n \in 0..MaxFields}

\* component_fields_map: a dict, its keys distinct, in insertion order
ComponentFieldsMaps ==
    {m \in UNION {[1..n -> [component_name : ComponentNames, field_names : FieldLists]] :
                     n \in 0..MaxComponents} :
        \A i, j \in DOMAIN m : i # j => m[i].component_name # m[j].component_name}

RECURSIVE ColumnLoopNeverClearsFirst(_, _, _)
ColumnLoopNeverClearsFirst(field_names, col_list, is_first_field) ==
    IF field_names = <<>> THEN col_list
    ELSE ColumnLoopNeverClearsFirst(
             Tail(field_names),
             Append(col_list, [Name |-> Head(field_names),
                               Type |-> IF is_first_field THEN "DATETIME" ELSE "DOUBLE"]),
             is_first_field)

\* lines 283-295: for field_name in field_names, one column appended per
\* field, DATETIME while is_first_field, which the first field clears
RECURSIVE ColumnLoop(_, _, _)
ColumnLoop(field_names, col_list, is_first_field) ==
    IF field_names = <<>> THEN col_list
    ELSE ColumnLoop(Tail(field_names),
                    Append(col_list, [Name |-> Head(field_names),
                                      Type |-> IF is_first_field THEN "DATETIME" ELSE "DOUBLE"]),
                    FALSE)

\* _create_component_schema
create_component_schema(component_name, field_names) ==
    [ComponentName |-> component_name, Columns |-> ColumnLoop(field_names, <<>>, TRUE)]

\* _create_data_schema_map: one component schema per key, in the dict's order
create_data_schema_map(fields_map) ==
    [Components |-> [i \in DOMAIN fields_map |->
                        create_component_schema(fields_map[i].component_name,
                                                fields_map[i].field_names)]]

\* json.dumps writes a dict as { key: value, ... } in the dict's order and a
\* list as [ item, ... ] in the list's order; the text is kept as its tokens
Punct(text) == [kind |-> "punct", text |-> text]
Key(text) == [kind |-> "key", text |-> text]
String(text) == [kind |-> "string", text |-> text]

DumpsColumn(col) ==
    <<Punct("{"), Key("Name"), String(col.Name), Key("Type"), String(col.Type), Punct("}")>>

RECURSIVE DumpsColumns(_)
DumpsColumns(col_list) ==
    IF col_list = <<>> THEN <<>>
    ELSE DumpsColumn(Head(col_list)) \o DumpsColumns(Tail(col_list))

DumpsComponent(component_schema) ==
    <<Punct("{"), Key("ComponentName"), String(component_schema.ComponentName),
      Key("Columns"), Punct("[")>>
        \o DumpsColumns(component_schema.Columns)
        \o <<Punct("]"), Punct("}")>>

RECURSIVE DumpsComponents(_)
DumpsComponents(component_schema_list) ==
    IF component_schema_list = <<>> THEN <<>>
    ELSE DumpsComponent(Head(component_schema_list))
             \o DumpsComponents(Tail(component_schema_list))

JsonDumps(data_schema) ==
    <<Punct("{"), Key("Components"), Punct("[")>>
        \o DumpsComponents(data_schema.Components)
        \o <<Punct("]"), Punct("}")>>

Built(data_schema) ==
    schema' = [made |-> TRUE, Components |-> data_schema.Components,
               json |-> JsonDumps(data_schema)]

\* create_data_schema(component_fields_map), on the dict the caller holds
create_data_schema ==
    /\ Built(create_data_schema_map(component_fields_map))
    /\ UNCHANGED component_fields_map

\* the caller holds any of the dicts; nothing else is used
InitSchema ==
    /\ df_list = <<>>
    /\ Constructed
    /\ observed = NoRun
    /\ ServiceUnused
    /\ component_fields_map \in ComponentFieldsMaps
    /\ schema = NoSchema

NextSchema ==
    /\ create_data_schema
    /\ UNCHANGED <<analysisVars, observed, serviceVars>>

SpecSchema == InitSchema /\ [][NextSchema]_vars


\* ------------------------------------------------------------ properties
Tags == 1..Len(df_list)

\* the score self.rank holds for a signal
Score(tag) ==
    rank.items[CHOOSE i \in DOMAIN rank.items : rank.items[i].tag = tag].score

\* the try block raises for this signal under the partition and the bin count
\* the object holds
Fails(tag) ==
    TryException(df_list[tag], ts_label_evaluation, ts_normal_training, num_bins) # "none"

\* the signal's maximum equals its minimum
Degenerate(tag) ==
    df_list[tag].numeric /\ NpMax(df_list[tag].v) = NpMin(df_list[tag].v)

BothSupplied == call.made /\ call.index_normal.some /\ call.index_anomaly.some

\* both partitions are set and hold at least one timestamp
BothPartitionsNonEmpty ==
    /\ ts_normal_training.some /\ ts_normal_training.idx # {}
    /\ ts_label_evaluation.some /\ ts_label_evaluation.idx # {}

\* C1: after compute_histograms() the entries of self.rank are in
\* non-increasing order of score: every entry's score is >= the next one's.
C1_RankNonIncreasing ==
    rank.some =>
        \A i \in 1..(Len(rank.items) - 1) :
            Geq(rank.items[i].score, rank.items[i + 1].score)

\* C2: two signals with equal scores appear in self.rank in the order they
\* have in df_list.
C2_TiesKeepInputOrder ==
    rank.some =>
        \A i, j \in DOMAIN rank.items :
            (i < j /\ rank.items[i].score = rank.items[j].score)
                => rank.items[i].tag < rank.items[j].tag

\* C2 witness: a ranking in which two signals tie at a positive score.
C2_Witness ==
    /\ rank.some
    /\ \E i, j \in DOMAIN rank.items :
          /\ i < j
          /\ rank.items[i].score = rank.items[j].score
          /\ rank.items[i].score.n > 0

HistogramOf(tag, index) ==
    NpHistogram(Loc(df_list[tag], index), NpMin(df_list[tag].v),
                BinWidth(df_list[tag].v, num_bins), num_bins)

\* the 1-D earth-mover distance between two histograms taken as weights over
\* the bin positions 0..num_bins-1: the sum over the positions of the absolute
\* difference of the two cumulative weight shares
EarthMoverOverBins(u, v) ==
    LET su == SumSeq(u.h)
        sv == SumSeq(v.h)
        cu(k) == SumSeq(SubSeq(u.h, 1, k))
        cv(k) == SumSeq(SubSeq(v.h, 1, k))
    IN  Frac(SumSeq([k \in 1..Len(u.h) |-> Abs(cu(k) * sv - cv(k) * su)]), su * sv)

\* the signal is 0 on every normal timestamp and 100 on every anomalous one
Separated(tag) ==
    /\ df_list[tag].numeric
    /\ \A t \in ts_normal_training.idx : df_list[tag].v[t] = 0
    /\ \A t \in ts_label_evaluation.idx : df_list[tag].v[t] = 100

\* the signal has one and the same value on all timestamps of both partitions
IdenticalAcrossPartitions(tag) ==
    /\ df_list[tag].numeric
    /\ \A s, t \in ts_normal_training.idx \cup ts_label_evaluation.idx :
          df_list[tag].v[s] = df_list[tag].v[t]

\* C4: with num_bins = 2 and both partitions non-empty, a signal that is 0 on
\* the normal timestamps and 100 on the anomalous ones scores strictly higher
\* than a signal whose values are identical across both partitions.
C4_SeparatedScoresHigher ==
    (rank.some /\ num_bins = 2 /\ BothPartitionsNonEmpty) =>
        \A a, b \in Tags :
            (Separated(a) /\ IdenticalAcrossPartitions(b)) => Lt(Score(b), Score(a))

\* C5: the score of a signal is the earth-mover distance between its normal
\* and anomalous histograms as weights over the bin positions.
C5_ScoreIsEarthMoverOverBins ==
    (rank.some /\ BothPartitionsNonEmpty) =>
        \A tag \in Tags :
            ~Fails(tag) =>
                Score(tag) = EarthMoverOverBins(HistogramOf(tag, ts_normal_training.idx),
                                                HistogramOf(tag, ts_label_evaluation.idx))

\* C6: when the normal and the anomalous partition are the same set of
\* timestamps, every signal's score is 0.0.
C6_SelfDistanceZero ==
    (rank.some /\ ts_normal_training.some /\ ts_label_evaluation.some
        /\ ts_normal_training.idx = ts_label_evaluation.idx) =>
        \A tag \in Tags : Score(tag) = Zero

\* C7: when the anomalous partition is empty, compute_histograms() returns and
\* every signal's score is the number 0.0.
C7_EmptyAnomalyScoresZero ==
    (rank.some /\ ts_label_evaluation.some /\ ts_label_evaluation.idx = {}) =>
        /\ outcome = "returned"
        /\ \A tag \in Tags : Score(tag) = Zero

\* C8: a signal whose maximum equals its minimum has score exactly 0.0, and the
\* error of its binning never reaches the caller: no ValueError leaves
\* compute_histograms(), and a call given both indices returns.
C8_DegenerateScoresZero ==
    /\ outcome # "ValueError"
    /\ (BothSupplied /\ \E tag \in Tags : Degenerate(tag)) => outcome = "returned"
    /\ rank.some => \A tag \in Tags : Degenerate(tag) => Score(tag) = Zero

\* C8 witness: a call returned a ranking over two non-empty partitions that
\* holds a constant signal next to a signal with a positive score.
C8_Witness ==
    /\ outcome = "returned"
    /\ rank.some
    /\ BothPartitionsNonEmpty
    /\ \E constant, other \in Tags :
          /\ Degenerate(constant)
          /\ Score(constant) = Zero
          /\ Score(other).n > 0

\* C9: a call given both index_normal and index_anomaly computes the
\* histograms over exactly those indices: they are the partition the loop
\* reads, on a fresh object and on one that holds an earlier partition.
C9_SuppliedIndicesUsed ==
    BothSupplied =>
        /\ ts_normal_training = call.index_normal
        /\ ts_label_evaluation = call.index_anomaly

\* some signal lacks a timestamp of the indices handed to the last call
IndexMismatch ==
    /\ BothSupplied
    /\ \E tag \in Tags :
          \/ LocRaises(df_list[tag], call.index_normal.idx)
          \/ LocRaises(df_list[tag], call.index_anomaly.idx)

\* C10: when a signal lacks a timestamp of the normal or anomalous index,
\* compute_histograms() ends with an exception instead of returning.
C10_MismatchRaises ==
    IndexMismatch => outcome \notin {"none", "returned"}

\* ------------------------------------------- properties of _get_time_ranges
\* a step of compute_histograms() in which _get_time_ranges() ran and returned
TimeRangesStep ==
    /\ outcome' = "returned"
    /\ ~BothSupplied'
    /\ compute_histograms(call'.index_normal, call'.index_anomaly, num_bins')

\* what that run of _get_time_ranges() returned
Returned == [index_normal  |-> ts_normal_training'.idx,
             index_anomaly |-> ts_label_evaluation'.idx]

\* the last call left an index out and returned, and the partition the object
\* holds covers the evaluation period it holds now
TimeRangesReturned ==
    /\ call.made /\ ~BothSupplied
    /\ outcome = "returned"
    /\ ts_normal_training.some /\ ts_label_evaluation.some
    /\ ts_normal_training.idx \cup ts_label_evaluation.idx
          = {t \in Timeline : evaluation.start <= t /\ t <= evaluation.end}

Overlap(a, b) ==
    /\ a.start <= a.end /\ b.start <= b.end
    /\ a.start <= b.end /\ b.start <= a.end

\* two rows of the list are the same interval or share a timestamp
HasOverlap(rows) == \E i, j \in DOMAIN rows : i < j /\ Overlap(rows[i], rows[j])

RECURSIVE InsertByStart(_, _)
InsertByStart(r, sorted) ==
    IF sorted = <<>> THEN <<r>>
    ELSE IF r.start <= Head(sorted).start THEN <<r>> \o sorted
    ELSE <<Head(sorted)>> \o InsertByStart(r, Tail(sorted))

RECURSIVE SortByStart(_)
SortByStart(rows) ==
    IF rows = <<>> THEN <<>> ELSE InsertByStart(Head(rows), SortByStart(Tail(rows)))

RECURSIVE MergeSorted(_)
MergeSorted(sorted) ==
    IF Len(sorted) < 2 THEN sorted
    ELSE IF sorted[2].start <= sorted[1].end
         THEN MergeSorted(<<Interval(sorted[1].start,
                                     IF sorted[2].end > sorted[1].end
                                     THEN sorted[2].end ELSE sorted[1].end)>>
                          \o Tail(Tail(sorted)))
         ELSE <<sorted[1]>> \o MergeSorted(Tail(sorted))

WellFormed(r) == r.start <= r.end

\* the merged list: the rows that hold a timestamp, by start, every two that
\* share a timestamp joined into one; no two of its rows overlap
Merged(rows) == MergeSorted(SortByStart(SelectSeq(rows, WellFormed)))

\* C11: for predicted ranges holding duplicate or overlapping intervals, in
\* whatever order, _get_time_ranges() returns the (index_normal,
\* index_anomaly) pair it yields for the merged, non-overlapping list that
\* covers the same timestamps.
C11_OverlapsAsMerged ==
    [][(TimeRangesStep /\ HasOverlap(predicted_ranges.rows)) =>
          Returned = GetTimeRanges(Merged(predicted_ranges.rows),
                                   evaluation.start, evaluation.end)]_vars

\* C11 witness: _get_time_ranges() returned a partition with both sides
\* non-empty for a list in which a later row overlaps an earlier one that
\* starts after it (the list is neither merged nor sorted).
C11_Witness ==
    /\ TimeRangesReturned
    /\ BothPartitionsNonEmpty
    /\ \E i, j \in DOMAIN predicted_ranges.rows :
          /\ i < j
          /\ Overlap(predicted_ranges.rows[i], predicted_ranges.rows[j])
          /\ predicted_ranges.rows[j].start < predicted_ranges.rows[i].start
    /\ Merged(predicted_ranges.rows) # predicted_ranges.rows

\* the timestamps of the timeline inside the evaluation period
Evaluated == {t \in Timeline : evaluation.start <= t /\ t <= evaluation.end}

\* C12: the index_normal and index_anomaly _get_time_ranges() returns are
\* disjoint, their union is exactly the timestamps of the timeline (the index
\* of the first signal) inside [evaluation_start, evaluation_end], and such a
\* timestamp is in index_anomaly if and only if it lies in [start, end], both
\* ends included, of at least one predicted range.
C12_PartitionOfEvaluated ==
    [][TimeRangesStep =>
          /\ Returned.index_normal \cap Returned.index_anomaly = {}
          /\ Returned.index_normal \cup Returned.index_anomaly = Evaluated
          /\ \A t \in Evaluated :
                t \in Returned.index_anomaly <=>
                    \E i \in DOMAIN predicted_ranges.rows :
                        /\ predicted_ranges.rows[i].start <= t
                        /\ t <= predicted_ranges.rows[i].end]_vars

\* C12 witness: _get_time_ranges() returned a partition with both sides
\* non-empty for an evaluation period that leaves out a timestamp of the
\* timeline, an anomalous timestamp being the end of a range that starts
\* earlier and the end of no other range.
C12_Witness ==
    /\ TimeRangesReturned
    /\ BothPartitionsNonEmpty
    /\ Evaluated # Timeline
    /\ \E t \in ts_label_evaluation.idx :
          /\ \E i \in DOMAIN predicted_ranges.rows :
                /\ predicted_ranges.rows[i].end = t
                /\ predicted_ranges.rows[i].start < t
          /\ \A i \in DOMAIN predicted_ranges.rows :
                (predicted_ranges.rows[i].start <= t /\ t <= predicted_ranges.rows[i].end)
                    => predicted_ranges.rows[i].end = t

\* the predicted ranges without their last row
Front(rows) == SubSeq(rows, 1, Len(rows) - 1)

Last(rows) == rows[Len(rows)]

Inside(t, r) == r.start <= t /\ t <= r.end

ReachesOutside(r) == WellFormed(r) /\ (r.start < 1 \/ r.end > MaxT)

\* what _get_time_ranges() yields for the rows before the last one: the flags
\* as they were when the last row was applied
Before == GetTimeRanges(Front(predicted_ranges.rows), evaluation.start, evaluation.end)

\* C14: a predicted range with start > end marks no timestamp as anomalous; a
\* range that reaches outside the timeline marks the timestamps of the
\* timeline inside it and no other; in both cases the flag of every timestamp
\* outside the range stays what the rows before it made it.
C14_MalformedRangeFrame ==
    [][(TimeRangesStep /\ predicted_ranges.rows # <<>>) =>
          /\ ~WellFormed(Last(predicted_ranges.rows)) => Returned = Before
          /\ ReachesOutside(Last(predicted_ranges.rows)) =>
                /\ \A t \in Evaluated :
                      Inside(t, Last(predicted_ranges.rows))
                          => t \in Returned.index_anomaly
                /\ Returned.index_anomaly \subseteq Timeline
          /\ (~WellFormed(Last(predicted_ranges.rows))
                 \/ ReachesOutside(Last(predicted_ranges.rows))) =>
                \A t \in Evaluated :
                    ~Inside(t, Last(predicted_ranges.rows)) =>
                        /\ t \in Returned.index_anomaly <=> t \in Before.index_anomaly
                        /\ t \in Returned.index_normal <=> t \in Before.index_normal]_vars

\* C14 witness: _get_time_ranges() returned a partition with both sides
\* non-empty for predicted ranges that hold a row with start > end and a row
\* that reaches outside the timeline.
C14_Witness ==
    /\ TimeRangesReturned
    /\ BothPartitionsNonEmpty
    /\ Evaluated = Timeline
    /\ \E i, j \in DOMAIN predicted_ranges.rows :
          /\ ~WellFormed(predicted_ranges.rows[i])
          /\ ReachesOutside(predicted_ranges.rows[j])

\* ---------------------------------------------- properties of repeated runs
\* a step of compute_histograms() that returns, on the signals, predicted
\* ranges, evaluation period, index arguments and num_bins of the run kept
\* in observed, which returned too
SameRunAgain ==
    /\ observed.some
    /\ observed.outcome = "returned"
    /\ outcome' = "returned"
    /\ observed.predicted_ranges = predicted_ranges
    /\ observed.evaluation = evaluation
    /\ observed.call = call'
    /\ observed.num_bins = num_bins'
    /\ compute_histograms(call'.index_normal, call'.index_anomaly, num_bins')

\* C13: two runs of compute_histograms() on identical inputs (same signals,
\* same predicted ranges, same evaluation period, same num_bins, same index
\* arguments) leave the same self.rank: same scores, same order.
C13_SameInputsSameRank ==
    [][SameRunAgain => rank' = observed.rank]_vars

\* ------------------------------------------------ properties of the helpers
\* the requests of the last call that went to this API, in order
SentTo(api) == SelectSeq(sent, LAMBDA request : request.api = api)

\* C15: LookoutEquipmentScheduler.delete() sends a delete_inference_scheduler
\* request only when the status it has just read is 'STOPPED' (then exactly
\* one, after the describe request); for every other status it raises an
\* exception and sends no delete request.
C15_DeleteOnlyWhenStopped ==
    last.name = "delete" =>
        /\ sent[1].api = "describe_inference_scheduler"
        /\ last.status = "STOPPED" =>
              /\ last.raised = "none"
              /\ sent = <<SchedulerRequest("describe_inference_scheduler"),
                          SchedulerRequest("delete_inference_scheduler")>>
        /\ last.status # "STOPPED" =>
              /\ last.raised # "none"
              /\ SentTo("delete_inference_scheduler") = <<>>

\* C15 witness: delete() read the status RUNNING, raised, and sent nothing
\* but the describe request.
C15_Witness ==
    /\ last.name = "delete"
    /\ last.status = "RUNNING"
    /\ last.raised = "Exception"
    /\ sent = <<SchedulerRequest("describe_inference_scheduler")>>

\* C16: list_datasets(max_results=n) returns at most n dataset names, however
\* many pages the service offers.
C16_AtMostMaxResults ==
    last.name = "list_datasets" => Len(last.dataset_list) <= last.max_results

\* the pages the service offers for a prefix and a page size: the matching
\* datasets cut into runs of that size, one empty page when there is none
RECURSIVE Chunks(_, _)
Chunks(names, size) ==
    IF Len(names) <= size THEN <<names>>
    ELSE <<SubSeq(names, 1, size)>> \o Chunks(SubSeq(names, size + 1, Len(names)), size)

RECURSIVE Concatenated(_)
Concatenated(pages) ==
    IF pages = <<>> THEN <<>> ELSE Head(pages) \o Concatenated(Tail(pages))

\* the kargs a request of the log was sent with
KargsOf(request) ==
    [MaxResults |-> request.MaxResults,
     DatasetNameBeginsWith |-> request.DatasetNameBeginsWith,
     NextToken |-> request.NextToken]

\* p1..pn for the last list_datasets() call
OfferedPages == Chunks(Matching(last.dataset_name), PageSize(last.max_results))

\* C17: when the service answers with the pages p1..pn, only pn without
\* NextToken, list_datasets() sends exactly n requests, the first without
\* NextToken and request i+1 with the NextToken of response i, response i
\* being page pi; the list returned is the dataset names of p1..pn
\* concatenated in order, each summary once.
C17_FollowsNextToken ==
    last.name = "list_datasets" =>
        /\ Len(sent) = Len(OfferedPages)
        /\ sent[1].NextToken = NoToken
        /\ \A i \in DOMAIN sent :
              /\ sent[i].api = "list_datasets"
              /\ sent[i].MaxResults = last.max_results
              /\ sent[i].DatasetNameBeginsWith = last.dataset_name
              /\ ListDatasetsResponse(KargsOf(sent[i])).DatasetSummaries = OfferedPages[i]
              /\ ListDatasetsResponse(KargsOf(sent[i])).NextToken.some <=> i < Len(sent)
              /\ i < Len(sent) =>
                    sent[i + 1].NextToken = ListDatasetsResponse(KargsOf(sent[i])).NextToken
        /\ last.dataset_list = Concatenated(OfferedPages)
        /\ last.dataset_list = Matching(last.dataset_name)

\* C17 witness: list_datasets() with a prefix got three pages or more, left a
\* dataset of the account out, and returned more names than max_results.
C17_Witness ==
    /\ last.name = "list_datasets"
    /\ last.dataset_name.some
    /\ Len(sent) >= 3
    /\ Len(last.dataset_list) < Len(datasets)
    /\ Len(last.dataset_list) > last.max_results

\* C18: create_dataset(name, schema) sends no create_dataset request when the
\* account holds a dataset of exactly that name, however many datasets have a
\* name beginning with it, and exactly one when it holds none.
C18_CreateOnlyWhenAbsent ==
    last.name = "create_dataset" =>
        Len(SentTo("create_dataset")) = IF last.existed THEN 0 ELSE 1

\* C19: when the first delete_dataset request fails with ConflictException,
\* delete_dataset() deletes every model that uses the dataset, only then
\* sends a second delete_dataset request, and ends with the dataset deleted.
C19_ConflictDeletesModelsFirst ==
    (last.name = "delete_dataset" /\ last.error = "ConflictException") =>
        /\ last.raised = "none"
        /\ Len(SentTo("delete_dataset")) = 2
        /\ sent[1].api = "delete_dataset"
        /\ sent[Len(sent)].api = "delete_dataset"
        /\ \A i \in 2..(Len(sent) - 1) : sent[i].api = "delete_model"
        /\ ModelsOf(last.dataset_name.v) = {}
        /\ last.dataset_name.v \notin Range(datasets)

\* ------------------------------------------- properties of the data schema
\* the strings the JSON text gives under a key, in the order of the text
TextsUnder(key) ==
    LET at == SelectSeq([i \in 1..(Len(schema.json) - 1) |->
                            [key |-> schema.json[i], value |-> schema.json[i + 1]]],
                        LAMBDA pair : pair.key = Key(key) /\ pair.value.kind = "string")
    IN  [i \in DOMAIN at |-> at[i].value.text]

\* the field names of all components, in map order
RECURSIVE AllFields(_)
AllFields(fields_map) ==
    IF fields_map = <<>> THEN <<>>
    ELSE Head(fields_map).field_names \o AllFields(Tail(fields_map))

\* DATETIME for the first field of each component, DOUBLE for the others
RECURSIVE AllTypes(_)
AllTypes(fields_map) ==
    IF fields_map = <<>> THEN <<>>
    ELSE [i \in DOMAIN Head(fields_map).field_names |->
             IF i = 1 THEN "DATETIME" ELSE "DOUBLE"]
         \o AllTypes(Tail(fields_map))

\* C20: for every component mapped to the field names f1..fn,
\* create_data_schema() produces one component entry, the entries in map
\* order, whose Columns has exactly n entries named f1..fn in that order, of
\* Type 'DATETIME' for f1 and 'DOUBLE' for every other field; the JSON text
\* returned lists the same components, names and types in the same order.
C20_SchemaFollowsMap ==
    schema.made =>
        /\ Len(schema.Components) = Len(component_fields_map)
        /\ \A c \in DOMAIN component_fields_map :
              /\ schema.Components[c].ComponentName = component_fields_map[c].component_name
              /\ Len(schema.Components[c].Columns) = Len(component_fields_map[c].field_names)
              /\ \A f \in DOMAIN component_fields_map[c].field_names :
                    /\ schema.Components[c].Columns[f].Name
                          = component_fields_map[c].field_names[f]
                    /\ schema.Components[c].Columns[f].Type
                          = IF f = 1 THEN "DATETIME" ELSE "DOUBLE"
        /\ TextsUnder("ComponentName")
              = [c \in DOMAIN component_fields_map |-> component_fields_map[c].component_name]
        /\ TextsUnder("Name") = AllFields(component_fields_map)
        /\ TextsUnder("Type") = AllTypes(component_fields_map)

\* C20 witness: a schema built for two components, the first with two fields
\* in an order that matters, the second with another first field.
C20_Witness ==
    /\ schema.made
    /\ Len(component_fields_map) = 2
    /\ component_fields_map[1].field_names = <<"Timestamp", "Sensor">>
    /\ component_fields_map[2].field_names = <<"Sensor", "Timestamp">>
    /\ Len(schema.json) > 0


\* ------------------------------------------------------------ start()
\* the call of start() that is in its polling loop
StartPolling == last.name = "start" /\ last.at = "polling"

\* start() has returned
StartReturned == last.name = "start" /\ Idle /\ last.raised = "none"

\* a step of start() in which a describe response is read or its request logged
StartDescribes ==
    /\ StartPolling
    /\ \/ sent' # sent
       \/ last'.status # last.status
       \/ last'.described # last.described
       \/ last'.raised = "ResourceNotFoundException"

\* a status that ends the loop
Settled == ResponseStatuses \ {"PENDING"}

\* C21: start() sends one start request, first; it describes the scheduler
\* only while the status it last observed is PENDING; when it has returned
\* that status is not PENDING; once a response carries another status than
\* PENDING start() returns, and it does so whenever the service stays on
\* such statuses from some moment on.
C21_StartPollsWhilePending ==
    /\ [](last.name = "start" =>
             /\ Len(SentTo("start_inference_scheduler")) = 1
             /\ Head(sent).api = "start_inference_scheduler")
    /\ [][StartDescribes => last.status = "PENDING"]_vars
    /\ [](StartReturned => last.status \in Settled)
    /\ (StartPolling /\ last.status \in Settled) ~> StartReturned
    /\ (<>[](scheduler_status \in Settled)) => (StartPolling ~> StartReturned)

\* start() has returned after the log took all the describe requests it
\* keeps, the last of them answered RUNNING
C21_Witness ==
    /\ StartReturned
    /\ last.described
    /\ last.status = "RUNNING"
    /\ Len(SentTo("describe_inference_scheduler")) = MaxPolls


\* ------------------------------------------------------------ create()
\* C22: when the create_inference_scheduler request has succeeded, create()
\* returns a describe response of the scheduler, whatever status the create
\* response carried.
C22_CreateReturnsDescribeResponse ==
    (last.name = "create" /\ Idle /\ last.error = "none") =>
        /\ last.raised = "none"
        /\ last.described


\* ------------------------------------------- get_predictions, get_labels
Loaded == predicted_ranges.some /\ labelled_ranges.some

====
